---- MODULE Spec2Model ----
(***************************************************************************)
(* git-arborist: the dashboard model (internal/tui), its event handlers    *)
(* (Update, handleKey, refreshAll, refreshRow) and the watcher lifecycle   *)
(* (internal/watcher), as a state machine over the events Bubble Tea       *)
(* delivers to Update.                                                     *)
(***************************************************************************)
EXTENDS Integers, Sequences, FiniteSets, TLC

(***************************************************************************)
(* Bounds                                                                  *)
(***************************************************************************)
\* events Update may handle before the refreshMsg of Init is delivered
MaxEarly == 3
\* changes under way: events fsnotify holds for the loop and messages sendFn
\* holds for Update
MaxPending == 1
\* changes under way where their order is followed
MaxBurst == 2
\* watchers created where their loops are followed
MaxWatchers == 3
\* lines in an output of `git status --porcelain`
MaxLines == 2
\* elements of a path given to deriveWorktreePath
MaxDepth == 4
\* worktree records in an output of `git worktree list --porcelain`
MaxRecords == 2

(***************************************************************************)
(* Input domains                                                           *)
(***************************************************************************)
\* worktree.Worktree values `git worktree list` can report
MainWT == [Path |-> "/r", Branch |-> "main"]
FeatA == [Path |-> "/r-featA", Branch |-> "featA"]
FeatB == [Path |-> "/r-featB", Branch |-> "featB"]

\* listings worktree.Discover can return: the primary working tree first,
\* linked working trees in any order, no path twice; the empty listing is
\* what parsePorcelain yields for output without a "worktree " line
Listings ==
    { <<>>, <<MainWT>>, <<MainWT, FeatA>> }

\* paths a FileChangedMsg can carry: a worktree root or a path owning no row
SignalPaths == {"/r-featA", "/r/.git/worktrees"}
SignalKinds == {"agent", "git", "other"}

\* error text of a failed collaborator call
ErrText == "exit status 128"

(***************************************************************************)
(* internal/gitstatus                                                      *)
(***************************************************************************)
\* the zero value of gitstatus.Status
ZeroStatus ==
    [ Clean |-> FALSE, Ahead |-> 0, Behind |-> 0,
      Staged |-> 0, Unstaged |-> 0, Untracked |-> 0 ]

\* an output of `git status --porcelain` is the sequence of its lines, a line
\* the sequence of its characters
RECURSIVE TrimLeft(_)
TrimLeft(line) ==
    IF line # <<>> /\ Head(line) = " " THEN TrimLeft(Tail(line)) ELSE line

RECURSIVE TrimRight(_)
TrimRight(line) ==
    IF line # <<>> /\ line[Len(line)] = " "
    THEN TrimRight(SubSeq(line, 1, Len(line) - 1))
    ELSE line

RECURSIVE TrimLeftLines(_)
TrimLeftLines(ls) ==
    IF ls = <<>> THEN <<>>
    ELSE IF TrimLeft(Head(ls)) = <<>> THEN TrimLeftLines(Tail(ls))
    ELSE << TrimLeft(Head(ls)) >> \o Tail(ls)

RECURSIVE TrimRightLines(_)
TrimRightLines(ls) ==
    IF ls = <<>> THEN <<>>
    ELSE IF TrimRight(ls[Len(ls)]) = <<>>
         THEN TrimRightLines(SubSeq(ls, 1, Len(ls) - 1))
    ELSE SubSeq(ls, 1, Len(ls) - 1) \o << TrimRight(ls[Len(ls)]) >>

\* strings.Split(strings.TrimSpace(out), "\n"): never empty, the single
\* empty line for an output of white space only
SplitTrimmed(out) ==
    LET ls == TrimRightLines(TrimLeftLines(out))
    IN  IF ls = <<>> THEN << <<>> >> ELSE ls

\* the switch of Get on the first two characters of a line
CountLine(s, line) ==
    IF Len(line) < 2 THEN s
    ELSE LET x == line[1]
             y == line[2]
         IN  IF x = "?" /\ y = "?"
             THEN [s EXCEPT !.Untracked = @ + 1]
             ELSE IF x # " " /\ x # "?"
             THEN [s EXCEPT !.Staged = @ + 1,
                            !.Unstaged = IF y # " " THEN @ + 1 ELSE @]
             ELSE IF y # " "
             THEN [s EXCEPT !.Unstaged = @ + 1]
             ELSE s

RECURSIVE CountLines(_, _)
CountLines(s, ls) ==
    IF ls = <<>> THEN s ELSE CountLines(CountLine(s, Head(ls)), Tail(ls))

\* gitstatus.Get for the outcomes of its two commands: p.err and p.out are
\* the error and output of `git status --porcelain`, p.revErr and p.rev the
\* error of `git rev-list --left-right --count` and the numbers it printed
Get(p) ==
    IF p.err THEN ZeroStatus
    ELSE LET lines == SplitTrimmed(p.out)
             s == IF Len(lines) = 1 /\ lines[1] = <<>>
                  THEN [ZeroStatus EXCEPT !.Clean = TRUE]
                  ELSE CountLines(ZeroStatus, lines)
         IN  IF ~p.revErr /\ Len(p.rev) = 2
             THEN [s EXCEPT !.Behind = p.rev[1], !.Ahead = p.rev[2]]
             ELSE s

\* one part of the text of Status.String: a format with its number
Part(text, n) == [text |-> text, n |-> n]

\* gitstatus.Status.String, as the parts it joins with " "
String(s) ==
    IF s.Clean /\ s.Ahead = 0 /\ s.Behind = 0
    THEN << Part("clean", 0) >>
    ELSE << Part(IF ~s.Clean THEN "dirty" ELSE "clean", 0) >>
         \o (IF s.Ahead > 0 THEN << Part("ahead %d", s.Ahead) >> ELSE <<>>)
         \o (IF s.Behind > 0 THEN << Part("behind %d", s.Behind) >> ELSE <<>>)
         \o (IF s.Staged > 0 THEN << Part("+%d staged", s.Staged) >>
             ELSE <<>>)
         \o (IF s.Untracked > 0
             THEN << Part("%d untracked", s.Untracked) >> ELSE <<>>)

\* lines of `git status --porcelain` ("f" stands for the path): a blank
\* line, an unstaged and a staged change, both, an untracked file, and a
\* line of one character
Lines ==
    { <<>>, <<" ", "M", " ", "f">>, <<"M", " ", " ", "f">>,
      <<"M", "M", " ", "f">>, <<"?", "?", " ", "f">>, <<"f">> }

Outputs == UNION { [1..n -> Lines] : n \in 0..MaxLines }

\* numbers printed by `git rev-list --left-right --count`: behind, ahead
Revs == { <<>>, <<0, 0>>, <<1, 0>>, <<0, 2>> }

\* every outcome of the two commands of Get
ProbeInputs == [err : BOOLEAN, out : Outputs, revErr : BOOLEAN, rev : Revs]

\* outcomes of the two commands of Get during a run of the dashboard: a
\* clean tree without upstream, or a failing `git status`
ProbeFailed == [err |-> TRUE, out |-> <<>>, revErr |-> TRUE, rev |-> <<>>]
Probes ==
    { [err |-> FALSE, out |-> <<>>, revErr |-> TRUE, rev |-> <<>>],
      ProbeFailed }

\* gitstatus.Status values a row can hold
GitVals == { Get(p) : p \in Probes }

(***************************************************************************)
(* internal/agent, internal/pr                                             *)
(***************************************************************************)
\* *agent.State as read from the sidecar: nil, or a state with its
\* TMUX.Session ("" when the sidecar carries no tmux reference)
NilAgent == [present |-> FALSE, session |-> ""]

\* agent.ReadState: nil when the sidecar cannot be read or parsed
ReadState(f) ==
    IF f.err THEN NilAgent ELSE [present |-> TRUE, session |-> f.session]

Sidecars ==
    { [err |-> TRUE, session |-> ""], [err |-> FALSE, session |-> ""],
      [err |-> FALSE, session |-> "repo"] }

AgentVals == { ReadState(f) : f \in Sidecars }

\* pr.Fetch: nil when `gh pr view` fails or prints no JSON, else the
\* pull request
Fetch(g) == IF g.err THEN "nil" ELSE "pr"

\* *pr.PullRequest: nil or a pull request
PRVals == { Fetch(g) : g \in [err : BOOLEAN] }

\* outcomes of the three reads refreshAll makes for one row
Reads ==
    { [ probe |-> [err |-> FALSE, out |-> <<>>, revErr |-> TRUE,
                   rev |-> <<>>],
        fetch |-> [err |-> TRUE],
        sidecar |-> [err |-> TRUE, session |-> ""] ],
      [ probe |-> ProbeFailed,
        fetch |-> [err |-> FALSE],
        sidecar |-> [err |-> FALSE, session |-> "repo"] ],
      [ probe |-> [err |-> FALSE, out |-> <<>>, revErr |-> TRUE,
                   rev |-> <<>>],
        fetch |-> [err |-> FALSE],
        sidecar |-> [err |-> FALSE, session |-> ""] ] }

\* output of `git status --short`
ShortOutputs == { "", " M main.go" }

Widths == { 80 }
Heights == { 24 }

Keys == { "q", "ctrl+c", "k", "up", "j", "down", "r", "enter", "o", "g",
          "d", "x" }

(***************************************************************************)
(* internal/watcher: classification of a raw change and its owner          *)
(***************************************************************************)
\* a path is the sequence of its elements below the root "/", the root the
\* empty sequence
Dir(p) == IF p = <<>> THEN <<>> ELSE SubSeq(p, 1, Len(p) - 1)
Base(p) == IF p = <<>> THEN "/" ELSE p[Len(p)]

\* the directory names the loop of deriveWorktreePath walks out of
GitInternal == {".git", "refs", "heads", "remotes", "worktrees"}

RECURSIVE WalkUp(_)
WalkUp(dir) == IF Base(dir) \in GitInternal THEN WalkUp(Dir(dir)) ELSE dir

\* faulty variant: the agent owner is taken two levels up
deriveWorktreePathTwoUp(changedPath, kind) ==
    IF kind = "agent" THEN Dir(Dir(changedPath))
    ELSE WalkUp(Dir(changedPath))

deriveWorktreePath(changedPath, kind) ==
    IF kind = "agent" THEN Dir(Dir(Dir(changedPath)))
    ELSE WalkUp(Dir(changedPath))

\* the kind the loop gives a raw change by the base name of its path
KindOf(name) == IF Base(name) = "state.json" THEN "agent" ELSE "git"

\* faulty variant: the directories that exist decide where the walk ends
DerivedOnLooking(fs, changedPath, kind) ==
    LET up == { n \in 0..Len(changedPath) :
                  SubSeq(changedPath, 1, n) \in fs }
        n == CHOOSE k \in up \cup {0} : \A j \in up : j <= k
    IN  [ owner |-> IF up = {} THEN deriveWorktreePath(changedPath, kind)
                    ELSE SubSeq(changedPath, 1, n),
          queried |-> { SubSeq(changedPath, 1, j) : j \in 0..Len(changedPath) } ]

\* deriveWorktreePath run on a machine where the directories fs exist: the
\* owner it returns and the paths it asked the filesystem about
DerivedOn(fs, changedPath, kind) ==
    [ owner |-> deriveWorktreePath(changedPath, kind), queried |-> {} ]

\* a path string that may be relative: abs tells whether it starts with "/",
\* elems are its elements; "/" and "." have none
PathOf(abs, elems) == [abs |-> abs, elems |-> elems]

\* filepath.Dir and filepath.Base of such a path
DirOf(p) == [p EXCEPT !.elems = Dir(@)]

\* faulty variant: the path without elements is named after a git directory
BaseOfNamingGit(p) == IF p.elems = <<>> THEN ".git" ELSE Base(p.elems)

BaseOf(p) ==
    IF p.elems = <<>> THEN (IF p.abs THEN "/" ELSE ".") ELSE Base(p.elems)

\* element names of the paths followed, and those paths
WalkNames == {".git", "refs", "heads", "x", "state.json"}
WalkPaths ==
    { PathOf(abs, elems) :
        abs \in BOOLEAN,
        elems \in UNION { [1..n -> WalkNames] : n \in 0..MaxDepth } }

NoWalk ==
    [ stage |-> "none", path |-> PathOf(TRUE, <<>>), kind |-> "",
      dir |-> PathOf(TRUE, <<>>), passes |-> 0 ]

\* roots of working trees
Roots == { <<"r">>, <<"r-featA">> }

\* where a change can be reported, below a root
Below ==
    { <<".git", "HEAD">>, <<".git", "index">>,
      <<".git", "refs", "stash">>,
      <<".git", "refs", "heads", "main">>,
      <<".git", "refs", "heads", "feature", "x">>,
      <<".git", "refs", "remotes", "origin", "main">>,
      <<".git", "refs", "tags", "v1">>,
      <<".git", "worktrees", "featA", "HEAD">>,
      <<".sideby", "agent", "state.json">>,
      <<".sideby", "agent", "state.json.tmp">>,
      <<"state.json">> }

ChangedPaths == { r \o b : r \in Roots, b \in Below } \cup { <<"state.json">> }

\* what exists when the owner is derived: the working trees with their
\* metadata, or nothing of them any more
Filesystems ==
    { {}, { <<"r">>, <<"r", ".git">>, <<"r-featA">> } }

\* no derivation is followed
NoDerive ==
    [ stage |-> "none", path |-> <<>>, kind |-> "", fsA |-> {}, fsB |-> {},
      A |-> [owner |-> <<>>, queried |-> {}],
      B |-> [owner |-> <<>>, queried |-> {}] ]

(***************************************************************************)
(* internal/watcher: what WatchWorktree subscribes to                      *)
(***************************************************************************)
\* bytes WatchWorktree skips at the start of a .git redirect file
GitdirSkip == 8

\* a string is a sequence of pieces: a path, or one byte of other text
Piece(text, path) == [text |-> text, path |-> path]
PathString(p) == << Piece("", p) >>

\* "gitdir: "
GitdirPrefix ==
    << Piece("g", <<>>), Piece("i", <<>>), Piece("t", <<>>), Piece("d", <<>>),
       Piece("i", <<>>), Piece("r", <<>>), Piece(":", <<>>), Piece(" ", <<>>) >>

\* the metadata directory of the linked working tree /r-featA
FeatAGitdir == <<"r", ".git", "worktrees", "featA">>

\* the .git file of /r-featA as git writes it, and without its newline
Redirect(newline) ==
    [ name |-> <<"r-featA", ".git">>,
      content |-> GitdirPrefix \o PathString(FeatAGitdir)
                  \o (IF newline THEN << Piece("\n", <<>>) >> ELSE <<>>) ]

MainDirs ==
    { <<"r", ".sideby", "agent">>, <<"r", ".git">>, <<"r", ".git", "refs">>,
      <<"r", ".git", "refs", "heads">>, FeatAGitdir }

\* what can be on disk when the worktrees /r and /r-featA are watched: both
\* complete; the redirect file without newline; /r without refs and sidecar
\* and a redirect file of seven bytes; /r without .git and sidecar
Disks ==
    { [ dirs |-> MainDirs \cup { <<"r-featA", ".sideby", "agent">> },
        files |-> { Redirect(TRUE) } ],
      [ dirs |-> MainDirs \cup { <<"r-featA", ".sideby", "agent">> },
        files |-> { Redirect(FALSE) } ],
      [ dirs |-> { <<"r", ".git">>, FeatAGitdir,
                   <<"r-featA", ".sideby", "agent">> },
        files |-> { [ name |-> <<"r-featA", ".git">>,
                      content |-> SubSeq(GitdirPrefix, 1, 7) ] } ],
      [ dirs |-> { FeatAGitdir, <<"r-featA", ".sideby", "agent">> },
        files |-> { Redirect(FALSE) } ] }

NoDisk == [dirs |-> {}, files |-> {}]

\* directories for which fsnotify's Add fails though they exist
BadAdds == { {}, { <<"r", ".git">> }, { <<"r", ".sideby", "agent">> } }

\* fsnotify's Add succeeds for an existing directory outside bad
Added(d, bad, str) ==
    /\ Len(str) = 1
    /\ str[1].text = ""
    /\ str[1].path \in d.dirs
    /\ str[1].path \notin bad

\* faulty variant: nothing more is added once an Add has failed
AddUnlessFailed(d, bad, w, str, root, what) ==
    IF \E a \in w.asked : ~Added(d, bad, a) THEN w
    ELSE [ w EXCEPT !.asked = @ \cup { str },
                    !.subs = IF Added(d, bad, str)
                             THEN @ \cup { [ path |-> str[1].path,
                                             for |-> root, what |-> what ] }
                             ELSE @ ]

\* w.fsw.Add(str) made by WatchWorktree(root); its error is dropped
Add(d, bad, w, str, root, what) ==
    [ w EXCEPT !.asked = @ \cup { str },
               !.subs = IF Added(d, bad, str)
                        THEN @ \cup { [ path |-> str[1].path, for |-> root,
                                        what |-> what ] }
                        ELSE @ ]

\* line[8:] followed by filepath.Clean, which keeps every byte of a path
\* that is clean already
RedirectTarget(line) == SubSeq(line, GitdirSkip + 1, Len(line))

\* Watcher.WatchWorktree on the fsnotify watcher w for the working tree root
WatchWorktree(d, bad, w, root) ==
    LET agentDir == root \o <<".sideby", "agent">>
        gitDir == root \o <<".git">>
        refsDir == gitDir \o <<"refs">>
        headsDir == refsDir \o <<"heads">>
        w1 == IF agentDir \in d.dirs
              THEN Add(d, bad, w, PathString(agentDir), root, "agent")
              ELSE w
        w2 == Add(d, bad, w1, PathString(gitDir), root, "git")
        w3 == IF refsDir \in d.dirs
              THEN Add(d, bad, w2, PathString(refsDir), root, "git")
              ELSE w2
        w4 == IF refsDir \in d.dirs /\ headsDir \in d.dirs
              THEN Add(d, bad, w3, PathString(headsDir), root, "git")
              ELSE w3
        redirect == { f \in d.files : f.name = gitDir }
    IN  IF gitDir \in d.dirs THEN w4
        ELSE IF redirect = {} THEN w1
        ELSE LET line == (CHOOSE f \in redirect : TRUE).content
             IN  IF Len(line) > GitdirSkip
                 THEN Add(d, bad, w1, RedirectTarget(line), root, "git")
                 ELSE w1

\* the loop of refreshAll over the rows: WatchWorktree for each root in turn
RECURSIVE WatchAll(_, _, _, _)
WatchAll(d, bad, w, roots) ==
    IF roots = <<>> THEN w
    ELSE WatchAll(d, bad, WatchWorktree(d, bad, w, Head(roots)), Tail(roots))

\* a fsnotify watcher just created, a closed one, and none
\* (sent counts the queued messages this watcher's loop has sent)
NewFsw ==
    [open |-> TRUE, subs |-> {}, asked |-> {}, events |-> <<>>, sent |-> 0]
ClosedFsw ==
    [open |-> FALSE, subs |-> {}, asked |-> {}, events |-> <<>>, sent |-> 0]
NoFsw == ClosedFsw

\* operations fsnotify reports, and those the loop passes on
Ops == {"write", "create", "remove", "rename", "chmod"}
SentOps == {"write", "create"}

\* names of entries that change in a watched directory
Entries(sub) ==
    IF sub.what = "agent" THEN {"state.json", "state.json.tmp"} ELSE {"HEAD"}

\* the elements of the paths of the working trees, and the path string of
\* an owner the loop derives
Elements(path) == IF path = "/r" THEN <<"r">> ELSE <<"r-featA">>
PathText(p) ==
    CASE p = <<"r">> -> "/r"
      [] p = <<"r-featA">> -> "/r-featA"
      [] p = FeatAGitdir -> "/r/.git/worktrees/featA"
      [] p = <<"r", ".sideby", "agent">> -> "/r/.sideby/agent"
      [] p = <<"r-featA", ".sideby", "agent">> -> "/r-featA/.sideby/agent"
      [] OTHER -> "/"

\* the FileChangedMsg the loop sends for the event e
Signal(e) ==
    [ WorktreePath |-> deriveWorktreePath(e.name, KindOf(e.name)),
      Kind |-> KindOf(e.name) ]

(***************************************************************************)
(* internal/watcher: the goroutine of a Watcher                            *)
(***************************************************************************)
\* a Watcher as its goroutine sees it: open until Close; pc is where the
\* goroutine is ("select", "send" inside sendFn, "done" after return);
\* event is the operation of a notification waiting on fsw.Events, "" for
\* none; sent counts the calls of sendFn made after Close
NewLoop == [open |-> TRUE, pc |-> "select", event |-> "", sent |-> 0]

\* Watcher.Close as the goroutine sees it: the channels of fsw are closed
Closed(l) == [l EXCEPT !.open = FALSE, !.event = ""]

\* faulty variant: the closed channel is not looked at
SelectedIgnoringClose(l) ==
    IF l.event \in SentOps
    THEN [l EXCEPT !.pc = "send", !.event = "",
                   !.sent = IF l.open THEN @ ELSE @ + 1]
    ELSE [l EXCEPT !.event = ""]

\* one pass of the select of Watcher.loop with an event or a closed channel
\* to receive
Selected(l) ==
    IF ~l.open THEN [l EXCEPT !.pc = "done"]
    ELSE IF l.event \in SentOps THEN [l EXCEPT !.pc = "send", !.event = ""]
    ELSE [l EXCEPT !.event = ""]

\* sendFn returns to the loop
Returned(l) == [l EXCEPT !.pc = "select"]

\* no watcher was created; current is the index of Model.watcher, ended
\* tells that the program has ended
NoLoops == [ws |-> <<>>, current |-> 0, ended |-> FALSE]

(***************************************************************************)
(* internal/worktree: parsePorcelain                                       *)
(***************************************************************************)
\* a line of `git worktree list --porcelain` after strings.TrimSpace: the
\* word before the first space and what follows it; a "branch" line carries
\* its ref as path elements
Line(key, val) == [key |-> key, val |-> val]
BlankLine == Line("", "")

\* the zero Worktree
NoWorktree == [Path |-> "", Branch |-> <<>>]

\* the body of the loop of parsePorcelain for one line; Branch is kept as the
\* path elements of the name
ParseLine(st, line) ==
    CASE line.key = "worktree"
           -> [st EXCEPT !.current = [Path |-> line.val, Branch |-> <<>>]]
      [] line.key = "branch"
           -> [st EXCEPT !.current.Branch = << Base(line.val) >>]
      [] line = BlankLine
           -> IF st.current.Path # ""
              THEN [ worktrees |-> Append(st.worktrees, st.current),
                     current |-> NoWorktree ]
              ELSE st
      [] OTHER -> st

RECURSIVE ParseLines(_, _)
ParseLines(st, lines) ==
    IF lines = <<>> THEN st
    ELSE ParseLines(ParseLine(st, Head(lines)), Tail(lines))

\* parsePorcelain on the lines strings.Split(raw, "\n") gives
parsePorcelain(lines) ==
    LET st == ParseLines([worktrees |-> <<>>, current |-> NoWorktree], lines)
    IN  IF st.current.Path # ""
        THEN Append(st.worktrees, st.current)
        ELSE st.worktrees

\* refs a worktree can be on; <<>> for a detached HEAD
Refs ==
    { <<>>, <<"refs", "heads", "main">>,
      <<"refs", "heads", "feature", "auth">> }

\* the records git prints: a working tree and the ref it is on
Records == [Path : {"/r", "/r-featA"}, ref : Refs]

\* the lines git prints for one record
RecordLines(r) ==
    << Line("worktree", r.Path), Line("HEAD", "abc") >>
    \o (IF r.ref = <<>> THEN << Line("detached", "") >>
        ELSE << Line("branch", r.ref) >>)

\* the text of a listing split at "\n": the records with an empty line
\* between them, then ends empty strings (2 when git's output is whole, 1
\* without the final blank line, 0 without the final newline as well)
RECURSIVE ListingLines(_, _)
ListingLines(recs, ends) ==
    IF recs = <<>> THEN <<>>
    ELSE IF Len(recs) = 1
    THEN RecordLines(recs[1]) \o [ i \in 1..ends |-> BlankLine ]
    ELSE RecordLines(recs[1]) \o << BlankLine >>
         \o ListingLines(Tail(recs), ends)

ListingInputs ==
    [ recs : UNION { [1..n -> Records] : n \in 0..MaxRecords },
      ends : 0..2 ]

NoParse == [stage |-> "none", in |-> [recs |-> <<>>, ends |-> 0], out |-> <<>>]

(***************************************************************************)
(* State                                                                   *)
(***************************************************************************)
VARIABLES
    rows,           \* Model.rows
    cursor,         \* Model.cursor
    message,        \* Model.message
    confirming,     \* Model.confirming
    width, height,  \* Model.width, Model.height
    watcher,        \* Model.watcher: index into watchers, 0 for nil
    watchers,       \* every Watcher created so far
    initPending,    \* the refreshMsg of Init has not been delivered yet
    early,          \* events handled while initPending
    quit,           \* handleKey returned tea.Quit
    last,           \* the event handled by the last step and the calls it made
    prompt,         \* table as it was when the last step asked to confirm
    probe,          \* a call of gitstatus.Get followed on its own
    derive,         \* a raw change classified and its owner derived, on its own
    disk,           \* directories and .git redirect files that exist
    fsw,            \* the fsnotify watcher of Model.watcher
    queue,          \* messages sent with sendFn that Update has not handled
    parse,          \* a listing parsed by parsePorcelain, on its own
    walk,           \* a call of deriveWorktreePath followed pass by pass
    loops           \* the goroutines started by watcher.New, on their own

vars == << rows, cursor, message, confirming, width, height, watcher,
           watchers, initPending, early, quit, last, prompt, probe,
           derive, disk, fsw, queue, parse, walk, loops >>

\* the variables of the dashboard
dash == << rows, cursor, message, confirming, width, height, watcher,
           watchers, initPending, early, quit, last, prompt >>

\* status line texts: message is text with arg substituted for its verb
Msg(text, arg) == [text |-> text, arg |-> arg]
NoMessage == Msg("", "")
CannotDeleteMsg == Msg("Cannot delete the main worktree", "")
RefreshingMsg == Msg("Refreshing...", "")
NoPRMsg == Msg("No PR for this branch", "")
ConfirmMsg(branch) ==
    Msg("Delete worktree '%s'? Press d to confirm, any other key to cancel",
        branch)
DeletedMsg(branch) == Msg("Deleted worktree '%s'", branch)
DeleteFailedMsg(err) == Msg("delete failed: %v", err)
DiscoveryErrorMsg(err) == Msg("discovery error: %v", err)
JumpFailedMsg(err) == Msg("tmux jump failed: %v", err)
TmuxMsg(err) == Msg("tmux: %v", err)

NoWatcher == 0

\* main wires the send function before the program runs
SendFnSet == TRUE

Max(a, b) == IF a >= b THEN a ELSE b

\* the Model, with the watchers it has created, as one value
Model ==
    [ rows |-> rows, cursor |-> cursor, message |-> message,
      confirming |-> confirming, width |-> width, height |-> height,
      watcher |-> watcher, watchers |-> watchers ]

Install(m) ==
    /\ rows' = m.rows
    /\ cursor' = m.cursor
    /\ message' = m.message
    /\ confirming' = m.confirming
    /\ width' = m.width
    /\ height' = m.height
    /\ watcher' = m.watcher
    /\ watchers' = m.watchers

\* record of a step: the event and the collaborator calls made handling it
NoCalls ==
    [ ev |-> "none", key |-> "", viaQuit |-> FALSE, disc |-> "none",
      wnew |-> "none",
      kill |-> "none", rmPath |-> "", rmRow0 |-> "", rm |-> "none",
      sigPath |-> "", sigKind |-> "",
      probed |-> FALSE, gitGot |-> ZeroStatus,
      read |-> FALSE, agentGot |-> NilAgent,
      fetched |-> FALSE,
      prompted |-> FALSE, killed |-> "none",
      focus |-> "none", focused |-> "none",
      open |-> "none", openPath |-> "",
      listed |-> <<>>, failed |-> <<>>, got |-> <<>>,
      bad |-> {}, raw |-> [name |-> <<>>, op |-> ""], reclosed |-> FALSE,
      stale |-> FALSE ]

NoPrompt == [asked |-> FALSE, rows |-> <<>>, cursor |-> 0]

(***************************************************************************)
(* Watcher                                                                 *)
(***************************************************************************)
\* faulty variant: Close of a closed watcher opens it again
CloseReopening(ws, w) == [ws EXCEPT ![w] = [open |-> ~@.open, paths |-> {}]]

\* Watcher.Close: the fsnotify watcher is closed and drops its watches
Close(ws, w) == [ws EXCEPT ![w] = [open |-> FALSE, paths |-> {}]]

\* watcher.New followed by WatchWorktree for every path in paths
NewWatching(ws, paths) == Append(ws, [open |-> TRUE, paths |-> paths])

RowPaths(rs) == { rs[i].Worktree.Path : i \in 1..Len(rs) }

OpenWatchers == { w \in 1..Len(watchers) : watchers[w].open }

(***************************************************************************)
(* refreshAll                                                              *)
(***************************************************************************)
\* faulty variant: the cursor is kept as it was
ClampCursorKept(c, n) == c

ClampCursor(c, n) == IF c >= n THEN Max(0, n - 1) ELSE c

\* the reads of reads[i] that failed
FailedReads(r) ==
    (IF r.probe.err THEN {"probe"} ELSE {})
    \cup (IF r.fetch.err THEN {"fetch"} ELSE {})
    \cup (IF r.sidecar.err THEN {"sidecar"} ELSE {})

\* faulty variant: a worktree with a failed read gets no row
BuildRowsSkippingFailed(wts, reads) ==
    LET all == [ i \in 1..Len(wts) |->
                   [ Worktree |-> wts[i], GitStatus |-> Get(reads[i].probe),
                     PR |-> Fetch(reads[i].fetch),
                     AgentState |-> ReadState(reads[i].sidecar) ] ]
        keep == { i \in 1..Len(wts) : FailedReads(reads[i]) = {} }
    IN  IF keep = 1..Len(wts) THEN all
        ELSE IF 1 \in keep THEN << all[1] >>
        ELSE IF 2 \in keep THEN << all[2] >>
        ELSE <<>>

\* faulty variant: the rows come out in the reverse of Discover's order
BuildRowsReversed(wts, reads) ==
    [ i \in 1..Len(wts) |->
        [ Worktree |-> wts[Len(wts) + 1 - i],
          GitStatus |-> Get(reads[Len(wts) + 1 - i].probe),
          PR |-> Fetch(reads[Len(wts) + 1 - i].fetch),
          AgentState |-> ReadState(reads[Len(wts) + 1 - i].sidecar) ] ]

\* the loop of refreshAll over the discovered worktrees
BuildRows(wts, reads) ==
    [ i \in 1..Len(wts) |->
        [ Worktree |-> wts[i], GitStatus |-> Get(reads[i].probe),
          PR |-> Fetch(reads[i].fetch),
          AgentState |-> ReadState(reads[i].sidecar) ] ]

\* the watchers of ws that are still open: a closed watcher the Model no
\* longer points to is garbage
Live(ws) == SelectSeq(ws, LAMBDA w : w.open)

\* faulty variant: the old watcher is left open
RewatchLeaking(m, newOk) ==
    IF SendFnSet /\ newOk
    THEN [m EXCEPT !.watchers = NewWatching(m.watchers, RowPaths(m.rows)),
                   !.watcher = Len(m.watchers) + 1]
    ELSE m

\* close the old watcher, then create and fill the new one
Rewatch(m, newOk) ==
    LET closed == IF m.watcher # NoWatcher
                  THEN Close(m.watchers, m.watcher) ELSE m.watchers
    IN  IF SendFnSet /\ newOk
        THEN [m EXCEPT !.watchers =
                         NewWatching(Live(closed), RowPaths(m.rows)),
                       !.watcher = Len(Live(closed)) + 1]
        ELSE [m EXCEPT !.watchers = closed]

\* faulty variant: a failed Discover installs its nil listing
refreshAllDroppingTable(m, discOk, wts, reads, newOk) ==
    IF ~discOk
    THEN [m EXCEPT !.message = DiscoveryErrorMsg(ErrText),
                   !.rows = <<>>, !.cursor = 0]
    ELSE LET built == BuildRows(wts, reads)
         IN  Rewatch([m EXCEPT !.rows = built,
                               !.cursor = ClampCursor(m.cursor, Len(built))],
                     newOk)

\* discOk: worktree.Discover succeeded with listing wts; reads: what the
\* per-row collaborators return; newOk: watcher.New succeeded
refreshAll(m, discOk, wts, reads, newOk) ==
    IF ~discOk
    THEN [m EXCEPT !.message = DiscoveryErrorMsg(ErrText)]
    ELSE LET built == BuildRows(wts, reads)
         IN  Rewatch([m EXCEPT !.rows = built,
                               !.cursor = ClampCursor(m.cursor, Len(built))],
                     newOk)

\* the watcher the Model holds was closed before: it was kept after a failed
\* watcher.New
Stale == watcher # NoWatcher /\ ~watchers[watcher].open

\* the calls a refreshAll makes, for the step record
RefreshCalls(c, discOk, wts, reads, newOk) ==
    [c EXCEPT !.disc = IF discOk THEN "ok" ELSE "fail",
              !.reclosed = discOk /\ Stale,
              !.listed = IF discOk THEN wts ELSE @,
              !.failed = IF discOk
                         THEN [ i \in 1..Len(wts) |-> FailedReads(reads[i]) ]
                         ELSE @,
              !.got = IF discOk THEN reads ELSE @,
              !.fetched = discOk /\ Len(wts) > 0,
              !.wnew = IF ~discOk \/ ~SendFnSet THEN "none"
                       ELSE IF newOk THEN "ok" ELSE "fail"]

\* outcomes of watcher.New
NewOutcomes == BOOLEAN

(***************************************************************************)
(* Init, Update                                                            *)
(***************************************************************************)
\* no call of gitstatus.Get is followed
NoProbe ==
    [stage |-> "none", in |-> ProbeFailed, status |-> ZeroStatus, text |-> <<>>]

\* NewModel, before Init's command has delivered anything
Launched ==
    /\ rows = <<>>
    /\ cursor = 0
    /\ message = NoMessage
    /\ confirming = FALSE
    /\ width = 0
    /\ height = 0
    /\ watcher = NoWatcher
    /\ watchers = <<>>
    /\ initPending = TRUE
    /\ early = 0
    /\ quit = FALSE
    /\ last = NoCalls
    /\ prompt = NoPrompt

Init ==
    /\ Launched
    /\ probe = NoProbe
    /\ derive = NoDerive
    /\ disk = NoDisk
    /\ loops = NoLoops
    /\ parse = NoParse
    /\ walk = NoWalk
    /\ fsw = NoFsw
    /\ queue = <<>>

\* an event other than the refreshMsg of Init reaches Update
Arrives ==
    /\ ~quit
    /\ initPending => early < MaxEarly
    /\ early' = IF initPending THEN early + 1 ELSE early
    /\ initPending' = initPending
    /\ UNCHANGED << probe, derive, disk, loops, walk, parse, fsw, queue >>

\* tea.WindowSizeMsg
Resize ==
    /\ Arrives
    /\ \E w \in Widths, h \in Heights :
         Install([Model EXCEPT !.width = w, !.height = h])
    /\ last' = [NoCalls EXCEPT !.ev = "resize"]
    /\ prompt' = NoPrompt
    /\ UNCHANGED quit

\* refreshMsg, produced once by Init's command
StartupRefresh ==
    /\ ~quit
    /\ initPending
    /\ \E discOk \in BOOLEAN, wts \in Listings, newOk \in NewOutcomes :
         \E reads \in [1..Len(wts) -> Reads] :
            /\ Install(refreshAll(Model, discOk, wts, reads, newOk))
            /\ last' = RefreshCalls([NoCalls EXCEPT !.ev = "refresh"],
                                    discOk, wts, reads, newOk)
    /\ initPending' = FALSE
    /\ early' = 0
    /\ prompt' = NoPrompt
    /\ UNCHANGED << quit, probe, derive, disk, loops, walk, parse, fsw, queue >>

\* faulty variant: a path owning no row falls back to the first row
refreshRowFallingBack(m, wtPath, kind, git, agent) ==
    LET hits == { i \in 1..Len(m.rows) : m.rows[i].Worktree.Path = wtPath }
        i == IF hits = {} THEN 1 ELSE CHOOSE j \in hits : \A k \in hits : j <= k
    IN  IF m.rows = <<>> THEN m
        ELSE CASE kind = "agent" ->
                    [m EXCEPT !.rows[i].AgentState = agent]
               [] kind = "git" ->
                    [m EXCEPT !.rows[i].GitStatus = git]
               [] OTHER ->
                    [m EXCEPT !.rows[i].GitStatus = git,
                              !.rows[i].AgentState = agent]

\* faulty variant: every kind re-reads both fields
refreshRowReadingBoth(m, wtPath, kind, git, agent) ==
    LET hits == { i \in 1..Len(m.rows) : m.rows[i].Worktree.Path = wtPath }
    IN  IF hits = {} THEN m
        ELSE LET i == CHOOSE j \in hits : \A k \in hits : j <= k
             IN  [m EXCEPT !.rows[i].GitStatus = git,
                           !.rows[i].AgentState = agent]

\* faulty variant: a kind that is not "agent" is taken for "git"
refreshRowDefaultingToGit(m, wtPath, kind, git, agent) ==
    LET hits == { i \in 1..Len(m.rows) : m.rows[i].Worktree.Path = wtPath }
    IN  IF hits = {} THEN m
        ELSE LET i == CHOOSE j \in hits : \A k \in hits : j <= k
             IN  IF kind = "agent"
                 THEN [m EXCEPT !.rows[i].AgentState = agent]
                 ELSE [m EXCEPT !.rows[i].GitStatus = git]

\* faulty variant: a path owning no row is given a row
refreshRowAppending(m, wtPath, kind, git, agent) ==
    LET hits == { i \in 1..Len(m.rows) : m.rows[i].Worktree.Path = wtPath }
    IN  IF hits = {}
        THEN [m EXCEPT !.rows =
                Append(@, [ Worktree |-> [Path |-> wtPath, Branch |-> ""],
                            GitStatus |-> git, AgentState |-> agent,
                            PR |-> "nil" ])]
        ELSE LET i == CHOOSE j \in hits : \A k \in hits : j <= k
             IN  CASE kind = "agent" ->
                        [m EXCEPT !.rows[i].AgentState = agent]
                   [] kind = "git" ->
                        [m EXCEPT !.rows[i].GitStatus = git]
                   [] OTHER ->
                        [m EXCEPT !.rows[i].GitStatus = git,
                                  !.rows[i].AgentState = agent]

\* refreshRow: the first row whose path is wtPath, if any, is re-read
refreshRow(m, wtPath, kind, git, agent) ==
    LET hits == { i \in 1..Len(m.rows) : m.rows[i].Worktree.Path = wtPath }
    IN  IF hits = {} THEN m
        ELSE LET i == CHOOSE j \in hits : \A k \in hits : j <= k
             IN  CASE kind = "agent" ->
                        [m EXCEPT !.rows[i].AgentState = agent]
                   [] kind = "git" ->
                        [m EXCEPT !.rows[i].GitStatus = git]
                   [] OTHER ->
                        [m EXCEPT !.rows[i].GitStatus = git,
                                  !.rows[i].AgentState = agent]

\* what gitstatus.Get and agent.ReadState can return to a refreshRow of this
\* kind; a kind that does not make the call has one placeholder result
ProbedBy(kind) == IF kind = "agent" THEN {ZeroStatus} ELSE GitVals
ReadBy(kind) == IF kind = "git" THEN {NilAgent} ELSE AgentVals

\* the calls a refreshRow makes and what they returned
SignalCalls(m, p, kind, git, agent) ==
    LET hit == p \in RowPaths(m.rows)
        probes == hit /\ kind # "agent"
        reads == hit /\ kind # "git"
    IN  [NoCalls EXCEPT !.ev = "signal", !.sigPath = p, !.sigKind = kind,
                        !.probed = probes,
                        !.gitGot = IF probes THEN git ELSE @,
                        !.read = reads,
                        !.agentGot = IF reads THEN agent ELSE @]

\* watcher.FileChangedMsg, sent by the loop of a watcher created earlier
FileChanged ==
    /\ Arrives
    /\ Len(watchers) > 0
    /\ \E p \in SignalPaths, kind \in SignalKinds :
         \E git \in ProbedBy(kind), agent \in ReadBy(kind) :
            /\ Install(refreshRow(Model, p, kind, git, agent))
            /\ last' = SignalCalls(Model, p, kind, git, agent)
    /\ prompt' = NoPrompt
    /\ UNCHANGED quit

(***************************************************************************)
(* handleKey                                                               *)
(***************************************************************************)
\* rows[cursor] of the code; sequences here start at 1
CurrentRow(m) == m.rows[m.cursor + 1]

HasTmuxRef(row) == row.AgentState.present /\ row.AgentState.session # ""

\* which tmux kill call the confirm key makes for a row
KillCall(row) == IF HasTmuxRef(row) THEN "ref" ELSE "path"

\* faulty variant: the flag is cleared only once the removal succeeded
confirmKeyStuck(m, killOk, rmOk, discOk, wts, reads, newOk) ==
    IF m.cursor < Len(m.rows)
    THEN IF ~rmOk
         THEN [m EXCEPT !.message = DeleteFailedMsg(ErrText)]
         ELSE refreshAll(
                [m EXCEPT !.confirming = FALSE,
                          !.message =
                              DeletedMsg(CurrentRow(m).Worktree.Branch)],
                discOk, wts, reads, newOk)
    ELSE [m EXCEPT !.confirming = FALSE]

\* confirming, key "d": kill the window, remove the worktree, rebuild
\* faulty variant: a failed removal is followed by the rebuild all the same
confirmKeyRebuildingAnyway(m, killOk, rmOk, discOk, wts, reads, newOk) ==
    LET off == [m EXCEPT !.confirming = FALSE]
    IN  IF m.cursor < Len(m.rows)
        THEN refreshAll(
               [off EXCEPT !.message =
                             IF rmOk
                             THEN DeletedMsg(CurrentRow(m).Worktree.Branch)
                             ELSE DeleteFailedMsg(ErrText)],
               discOk, wts, reads, newOk)
        ELSE off

\* faulty variant: the removal is given up when the window cannot be closed
confirmKeyNeedingKill(m, killOk, rmOk, discOk, wts, reads, newOk) ==
    LET off == [m EXCEPT !.confirming = FALSE]
    IN  IF m.cursor < Len(m.rows)
        THEN IF ~killOk THEN off
             ELSE IF ~rmOk
             THEN [off EXCEPT !.message = DeleteFailedMsg(ErrText)]
             ELSE refreshAll(
                    [off EXCEPT !.message =
                                  DeletedMsg(CurrentRow(m).Worktree.Branch)],
                    discOk, wts, reads, newOk)
        ELSE off

\* the confirming branch on "d"; killOk is the result of the tmux kill call,
\* which the code discards
confirmKey(m, killOk, rmOk, discOk, wts, reads, newOk) ==
    LET off == [m EXCEPT !.confirming = FALSE]
    IN  IF m.cursor < Len(m.rows)
        THEN IF ~rmOk
             THEN [off EXCEPT !.message = DeleteFailedMsg(ErrText)]
             ELSE refreshAll(
                    [off EXCEPT !.message =
                                  DeletedMsg(CurrentRow(m).Worktree.Branch)],
                    discOk, wts, reads, newOk)
        ELSE off

\* the calls the confirm key makes
\* faulty variant: the removal is asked for the first row
ConfirmCallsOnFirstRow(m, c, killOk, rmOk, discOk, wts, reads, newOk) ==
    IF m.cursor < Len(m.rows)
    THEN LET made == [c EXCEPT !.prompted = prompt.asked,
                               !.kill = KillCall(CurrentRow(m)),
                               !.killed = IF killOk THEN "ok" ELSE "fail",
                               !.rmPath = m.rows[1].Worktree.Path,
                               !.rmRow0 = m.rows[1].Worktree.Path,
                               !.rm = IF rmOk THEN "ok" ELSE "fail"]
         IN  IF rmOk THEN RefreshCalls(made, discOk, wts, reads, newOk)
             ELSE made
    ELSE [c EXCEPT !.prompted = prompt.asked]

\* the calls the confirm key makes: the tmux kill call and its result, then
\* worktree.Remove, then on success those of refreshAll
ConfirmCalls(m, c, killOk, rmOk, discOk, wts, reads, newOk) ==
    IF m.cursor < Len(m.rows)
    THEN LET made == [c EXCEPT !.prompted = prompt.asked,
                               !.kill = KillCall(CurrentRow(m)),
                               !.killed = IF killOk THEN "ok" ELSE "fail",
                               !.rmPath = CurrentRow(m).Worktree.Path,
                               !.rmRow0 = m.rows[1].Worktree.Path,
                               !.rm = IF rmOk THEN "ok" ELSE "fail"]
         IN  IF rmOk THEN RefreshCalls(made, discOk, wts, reads, newOk)
             ELSE made
    ELSE [c EXCEPT !.prompted = prompt.asked]

\* faulty variant: the prompt stays on the status line
cancelKeyKeepingPrompt(m) == [m EXCEPT !.confirming = FALSE]

\* confirming, any other key
cancelKey(m) == [m EXCEPT !.confirming = FALSE, !.message = NoMessage]

\* faulty variant: the watcher is not closed
quitKeyLeaking(m) == m

\* "q", "ctrl+c"
quitKey(m) ==
    IF m.watcher # NoWatcher
    THEN [m EXCEPT !.watchers = Close(m.watchers, m.watcher)]
    ELSE m

\* "k", "up"
upKey(m) == IF m.cursor > 0 THEN [m EXCEPT !.cursor = m.cursor - 1] ELSE m

\* "j", "down"
downKey(m) ==
    IF m.cursor < Len(m.rows) - 1
    THEN [m EXCEPT !.cursor = m.cursor + 1] ELSE m

\* "r"
refreshKey(m, discOk, wts, reads, newOk) ==
    LET busy == [m EXCEPT !.message = RefreshingMsg]
        done == refreshAll(busy, discOk, wts, reads, newOk)
    IN  [done EXCEPT !.message = NoMessage]

\* "enter": tmuxOk is the outcome of the jump made
\* faulty variant: a failed focus call goes unreported
enterKeySilent(m, tmuxOk) == m

\* which tmux focus call the enter key makes, and its result
EnterCalls(m, c, tmuxOk) ==
    IF m.cursor < Len(m.rows)
    THEN [c EXCEPT !.focus = IF HasTmuxRef(CurrentRow(m)) THEN "ref"
                             ELSE "path",
                   !.focused = IF tmuxOk THEN "ok" ELSE "fail"]
    ELSE c

enterKey(m, tmuxOk) ==
    IF m.cursor < Len(m.rows)
    THEN IF tmuxOk THEN m
         ELSE IF HasTmuxRef(CurrentRow(m))
              THEN [m EXCEPT !.message = JumpFailedMsg(ErrText)]
              ELSE [m EXCEPT !.message = TmuxMsg(ErrText)]
    ELSE m

\* the pr.OpenInBrowser call the open key makes, and its result
OpenCalls(m, c, openOk) ==
    IF m.cursor < Len(m.rows) /\ CurrentRow(m).PR # "nil"
    THEN [c EXCEPT !.open = IF openOk THEN "ok" ELSE "fail",
                   !.openPath = CurrentRow(m).Worktree.Path]
    ELSE c

\* "o"; openOk is the result of pr.OpenInBrowser, which the code discards
openKey(m, openOk) ==
    IF m.cursor < Len(m.rows)
    THEN IF CurrentRow(m).PR # "nil" THEN m
         ELSE [m EXCEPT !.message = NoPRMsg]
    ELSE m

\* "g": gitOk is the outcome of `git status --short`, out its output
gitKey(m, gitOk, out) ==
    IF m.cursor < Len(m.rows) /\ gitOk
    THEN [m EXCEPT !.message = Msg(out, "")]
    ELSE m

\* faulty variant: row 0 is not singled out
deleteKeyAnyRow(m) ==
    IF m.cursor < Len(m.rows)
    THEN [m EXCEPT !.confirming = TRUE,
                   !.message = ConfirmMsg(CurrentRow(m).Worktree.Branch)]
    ELSE m

\* "d" outside a confirmation
deleteKey(m) ==
    IF m.cursor = 0
    THEN [m EXCEPT !.message = CannotDeleteMsg]
    ELSE IF m.cursor < Len(m.rows)
         THEN [m EXCEPT !.confirming = TRUE,
                        !.message = ConfirmMsg(CurrentRow(m).Worktree.Branch)]
         ELSE m

QuitKeys == {"q", "ctrl+c"}

\* a key handled by the branch of handleKey named branch
KeyCalls(branch, k) ==
    [NoCalls EXCEPT !.ev = "key", !.key = branch, !.viaQuit = k \in QuitKeys]

KeyConfirm ==
    /\ Arrives
    /\ confirming
    /\ \E killOk \in BOOLEAN, rmOk \in BOOLEAN, discOk \in BOOLEAN,
          wts \in Listings, newOk \in NewOutcomes :
         \E reads \in [1..Len(wts) -> Reads] :
            /\ Install(confirmKey(Model, killOk, rmOk, discOk, wts, reads,
                                   newOk))
            /\ last' = ConfirmCalls(Model, KeyCalls("confirm", "d"),
                                     killOk, rmOk, discOk, wts, reads, newOk)
    /\ prompt' = NoPrompt
    /\ UNCHANGED quit

KeyCancel ==
    /\ Arrives
    /\ confirming
    /\ \E k \in Keys \ {"d"} :
         /\ Install(cancelKey(Model))
         /\ last' = KeyCalls("cancel", k)
    /\ prompt' = NoPrompt
    /\ UNCHANGED quit

KeyQuit ==
    /\ Arrives
    /\ ~confirming
    /\ \E k \in {"q", "ctrl+c"} :
         /\ Install(quitKey(Model))
         /\ last' = [KeyCalls("quit", k) EXCEPT !.reclosed = Stale]
    /\ quit' = TRUE
    /\ prompt' = NoPrompt

KeyUp ==
    /\ Arrives
    /\ ~confirming
    /\ \E k \in {"k", "up"} :
         /\ Install(upKey(Model))
         /\ last' = KeyCalls("up", k)
    /\ prompt' = NoPrompt
    /\ UNCHANGED quit

KeyDown ==
    /\ Arrives
    /\ ~confirming
    /\ \E k \in {"j", "down"} :
         /\ Install(downKey(Model))
         /\ last' = KeyCalls("down", k)
    /\ prompt' = NoPrompt
    /\ UNCHANGED quit

KeyRefresh ==
    /\ Arrives
    /\ ~confirming
    /\ \E discOk \in BOOLEAN, wts \in Listings, newOk \in NewOutcomes :
         \E reads \in [1..Len(wts) -> Reads] :
            /\ Install(refreshKey(Model, discOk, wts, reads, newOk))
            /\ last' = RefreshCalls(KeyCalls("refresh", "r"), discOk, wts, reads,
                                    newOk)
    /\ prompt' = NoPrompt
    /\ UNCHANGED quit

KeyEnter ==
    /\ Arrives
    /\ ~confirming
    /\ \E tmuxOk \in BOOLEAN :
         /\ Install(enterKey(Model, tmuxOk))
         /\ last' = EnterCalls(Model, KeyCalls("enter", "enter"), tmuxOk)
    /\ prompt' = NoPrompt
    /\ UNCHANGED quit

KeyOpen ==
    /\ Arrives
    /\ ~confirming
    /\ \E openOk \in BOOLEAN :
         /\ Install(openKey(Model, openOk))
         /\ last' = OpenCalls(Model, KeyCalls("open", "o"), openOk)
    /\ prompt' = NoPrompt
    /\ UNCHANGED quit

KeyGitStatus ==
    /\ Arrives
    /\ ~confirming
    /\ \E gitOk \in BOOLEAN, out \in ShortOutputs :
         Install(gitKey(Model, gitOk, out))
    /\ last' = KeyCalls("status", "g")
    /\ prompt' = NoPrompt
    /\ UNCHANGED quit

KeyDelete ==
    /\ Arrives
    /\ ~confirming
    /\ Install(deleteKey(Model))
    /\ last' = KeyCalls("delete", "d")
    /\ prompt' = [asked |-> deleteKey(Model).confirming,
                  rows |-> IF deleteKey(Model).confirming THEN rows ELSE <<>>,
                  cursor |-> IF deleteKey(Model).confirming THEN cursor ELSE 0]
    /\ UNCHANGED quit

\* a key no case of handleKey matches
KeyOther ==
    /\ Arrives
    /\ ~confirming
    /\ Install(Model)
    /\ last' = KeyCalls("none", "x")
    /\ prompt' = NoPrompt
    /\ UNCHANGED quit

Next ==
    \/ Resize
    \/ StartupRefresh
    \/ FileChanged
    \/ KeyConfirm
    \/ KeyCancel
    \/ KeyQuit
    \/ KeyUp
    \/ KeyDown
    \/ KeyRefresh
    \/ KeyEnter
    \/ KeyOpen
    \/ KeyGitStatus
    \/ KeyDelete
    \/ KeyOther

Spec == Init /\ [][Next]_vars

(***************************************************************************)
(* gitstatus.Get and Status.String on their own: a call for each outcome   *)
(* of the two git commands, then the rendering of its result               *)
(***************************************************************************)
StatusInit ==
    /\ Launched
    /\ derive = NoDerive
    /\ disk = NoDisk
    /\ loops = NoLoops
    /\ parse = NoParse
    /\ walk = NoWalk
    /\ fsw = NoFsw
    /\ queue = <<>>
    /\ \E p \in ProbeInputs :
         probe = [stage |-> "asked", in |-> p, status |-> ZeroStatus,
                  text |-> <<>>]

\* gitstatus.Get returns
GetReturns ==
    /\ probe.stage = "asked"
    /\ probe' = [probe EXCEPT !.stage = "got", !.status = Get(probe.in)]
    /\ UNCHANGED << dash, derive, disk, loops, walk, parse, fsw, queue >>

\* the view renders the status with Status.String
StatusRendered ==
    /\ probe.stage = "got"
    /\ probe' = [probe EXCEPT !.stage = "shown",
                              !.text = String(probe.status)]
    /\ UNCHANGED << dash, derive, disk, loops, walk, parse, fsw, queue >>

StatusNext == GetReturns \/ StatusRendered

StatusSpec == StatusInit /\ [][StatusNext]_vars

(***************************************************************************)
(* The loop's classification and deriveWorktreePath on their own: one raw  *)
(* change, handled on two machines that differ in what exists on disk      *)
(***************************************************************************)
DeriveInit ==
    /\ Launched
    /\ probe = NoProbe
    /\ disk = NoDisk
    /\ loops = NoLoops
    /\ parse = NoParse
    /\ walk = NoWalk
    /\ fsw = NoFsw
    /\ queue = <<>>
    /\ \E p \in ChangedPaths, a \in Filesystems, b \in Filesystems :
         derive = [NoDerive EXCEPT !.stage = "raised", !.path = p,
                                   !.fsA = a, !.fsB = b]

\* the loop names the kind of the change
Classified ==
    /\ derive.stage = "raised"
    /\ derive' = [derive EXCEPT !.stage = "classified",
                                !.kind = KindOf(derive.path)]
    /\ UNCHANGED << dash, probe, disk, loops, walk, parse, fsw, queue >>

\* the loop derives the owner
Derived ==
    /\ derive.stage = "classified"
    /\ derive' = [derive EXCEPT
                     !.stage = "derived",
                     !.A = DerivedOn(derive.fsA, derive.path, derive.kind),
                     !.B = DerivedOn(derive.fsB, derive.path, derive.kind)]
    /\ UNCHANGED << dash, probe, disk, loops, walk, parse, fsw, queue >>

DeriveNext == Classified \/ Derived

DeriveSpec == DeriveInit /\ [][DeriveNext]_vars

(***************************************************************************)
(* deriveWorktreePath pass by pass: the call, each pass of its for loop,   *)
(* the return                                                              *)
(***************************************************************************)
WalkInit ==
    /\ Launched
    /\ probe = NoProbe
    /\ derive = NoDerive
    /\ disk = NoDisk
    /\ loops = NoLoops
    /\ fsw = NoFsw
    /\ queue = <<>>
    /\ parse = NoParse
    /\ \E p \in WalkPaths, kind \in {"git", "agent"} :
         walk = [NoWalk EXCEPT !.stage = "called", !.path = p, !.kind = kind]

\* the agent branch returns at once; the git branch sets dir and enters the
\* loop
WalkEntered ==
    /\ walk.stage = "called"
    /\ walk' = IF walk.kind = "agent"
               THEN [walk EXCEPT !.stage = "returned",
                                 !.dir = DirOf(DirOf(DirOf(walk.path)))]
               ELSE [walk EXCEPT !.stage = "walking",
                                 !.dir = DirOf(walk.path)]
    /\ UNCHANGED << dash, probe, derive, disk, loops, fsw, queue, parse >>

\* one pass of the for loop whose base is a git-internal name
WalkedUp ==
    /\ walk.stage = "walking"
    /\ BaseOf(walk.dir) \in GitInternal
    /\ walk' = [walk EXCEPT !.dir = DirOf(walk.dir), !.passes = @ + 1]
    /\ UNCHANGED << dash, probe, derive, disk, loops, fsw, queue, parse >>

\* the pass that returns dir
WalkReturned ==
    /\ walk.stage = "walking"
    /\ BaseOf(walk.dir) \notin GitInternal
    /\ walk' = [walk EXCEPT !.stage = "returned"]
    /\ UNCHANGED << dash, probe, derive, disk, loops, fsw, queue, parse >>

WalkNext == WalkEntered \/ WalkedUp \/ WalkReturned

WalkSpec == WalkInit /\ [][WalkNext]_vars

\* the function keeps running once called
WalkFairSpec == WalkSpec /\ WF_vars(WalkNext)

(***************************************************************************)
(* The watcher at work: rebuilds that subscribe on a given disk, raw       *)
(* changes, the loop that turns them into messages, Update handling them   *)
(***************************************************************************)
WatchInit ==
    /\ Launched
    /\ probe = NoProbe
    /\ derive = NoDerive
    /\ disk \in Disks
    /\ loops = NoLoops
    /\ parse = NoParse
    /\ walk = NoWalk
    /\ fsw = NoFsw
    /\ queue = <<>>

\* what Discover lists here: both worktrees, or /r alone once /r-featA was
\* removed
WatchListings == { << MainWT, FeatA >>, << MainWT >> }

\* what the reads of a rebuild return here: nothing fails, no tmux session
QuietReads ==
    [ i \in 1..2 |->
        [ probe |-> [err |-> FALSE, out |-> <<>>, revErr |-> TRUE,
                     rev |-> <<>>],
          fetch |-> [err |-> FALSE],
          sidecar |-> [err |-> FALSE, session |-> ""] ] ]

\* the fsnotify watcher after the watcher part of refreshAll: the old one is
\* closed; a new one, if watcher.New succeeds, watches every row
Resubscribed(d, bad, rs, newOk) ==
    IF SendFnSet /\ newOk
    THEN WatchAll(d, bad, NewFsw,
                  [ i \in 1..Len(rs) |-> Elements(rs[i].Worktree.Path) ])
    ELSE ClosedFsw

\* refreshMsg or the key "r": refreshAll with both worktrees listed
WatchRebuild ==
    /\ ~quit
    /\ ~confirming
    /\ \E newOk \in NewOutcomes, bad \in BadAdds, wts \in WatchListings :
         LET m == IF initPending
                  THEN refreshAll(Model, TRUE, wts, QuietReads, newOk)
                  ELSE refreshKey(Model, TRUE, wts, QuietReads, newOk)
             c == IF initPending THEN [NoCalls EXCEPT !.ev = "refresh"]
                  ELSE KeyCalls("refresh", "r")
         IN  /\ Install(m)
             /\ fsw' = Resubscribed(disk, bad, m.rows, newOk)
             /\ last' = [RefreshCalls(c, TRUE, wts, QuietReads, newOk)
                           EXCEPT !.bad = bad]
    /\ initPending' = FALSE
    /\ prompt' = NoPrompt
    /\ UNCHANGED << early, quit, probe, derive, disk, loops, walk, parse, queue >>

\* fsnotify reports a change of an entry of a watched directory, while
\* fewer than limit changes are under way
RawChangeWithin(limit) ==
    /\ fsw.open
    /\ Len(fsw.events) + Len(queue) < limit
    /\ \E sub \in fsw.subs, op \in Ops : \E n \in Entries(sub) :
         /\ fsw' = [fsw EXCEPT !.events =
                        Append(@, [name |-> sub.path \o <<n>>, op |-> op])]
         /\ last' = [NoCalls EXCEPT !.ev = "raw",
                                    !.raw = [name |-> sub.path \o <<n>>,
                                             op |-> op]]
    /\ UNCHANGED << rows, cursor, message, confirming, width, height,
                    watcher, watchers, initPending, early, quit, prompt,
                    probe, derive, disk, loops, walk, parse, queue >>

RawChange == RawChangeWithin(MaxPending)

\* faulty variant: the loop re-reads the row itself
loopTouchingRows(m, q, e) ==
    [ model |-> [refreshRow(m, PathText(Signal(e).WorktreePath),
                            Signal(e).Kind, ZeroStatus, NilAgent)
                   EXCEPT !.message = RefreshingMsg],
      queue |-> q ]

\* faulty variant: the message is put ahead of those waiting
loopJumpingQueue(m, q, e) ==
    [ model |-> m,
      queue |-> IF e.op \in SentOps THEN << Signal(e) >> \o q ELSE q ]

\* one pass of Watcher.loop for the event e: the Model it leaves and the
\* messages sent
loop(m, q, e) ==
    [ model |-> m,
      queue |-> IF e.op \in SentOps THEN Append(q, Signal(e)) ELSE q ]

\* the loop receives an event
LoopStep ==
    /\ fsw.open
    /\ fsw.events # <<>>
    /\ LET e == Head(fsw.events)
           r == loop(Model, queue, e)
       IN  /\ Install(r.model)
           /\ queue' = r.queue
           /\ last' = [NoCalls EXCEPT !.ev = "loop", !.raw = e]
    /\ fsw' = [fsw EXCEPT !.events = Tail(@),
                          !.sent = @ + Len(queue') - Len(queue)]
    /\ UNCHANGED << initPending, early, quit, prompt, probe, derive, disk, loops,
                    walk, parse >>

\* what the read of a signal returns here: the tree stopped answering, the
\* sidecar is gone
WatchProbed(kind) == IF kind = "agent" THEN {ZeroStatus} ELSE {Get(ProbeFailed)}
WatchRead(kind) == {NilAgent}

\* Update handles the FileChangedMsg at the head of the queue
Delivered ==
    /\ ~quit
    /\ queue # <<>>
    /\ LET msg == Head(queue)
           p == PathText(msg.WorktreePath)
       IN  \E git \in WatchProbed(msg.Kind), agent \in WatchRead(msg.Kind) :
             /\ Install(refreshRow(Model, p, msg.Kind, git, agent))
             /\ last' = [SignalCalls(Model, p, msg.Kind, git, agent)
                           EXCEPT !.stale = Len(queue) > fsw.sent]
    /\ queue' = Tail(queue)
    /\ fsw' = [fsw EXCEPT !.sent = IF Len(queue) > @ THEN @ ELSE @ - 1]
    /\ prompt' = NoPrompt
    /\ UNCHANGED << initPending, early, quit, probe, derive, disk, loops, walk,
                    parse >>

\* "q" or "ctrl+c"
WatchQuit ==
    /\ ~quit
    /\ ~confirming
    /\ Install(quitKey(Model))
    /\ fsw' = IF watcher # NoWatcher THEN ClosedFsw ELSE fsw
    /\ last' = [KeyCalls("quit", "q") EXCEPT !.reclosed = Stale]
    /\ quit' = TRUE
    /\ prompt' = NoPrompt
    /\ UNCHANGED << initPending, early, probe, derive, disk, loops, walk, parse, queue >>

WatchNext ==
    \/ WatchRebuild
    \/ RawChange
    \/ LoopStep
    \/ Delivered
    \/ WatchQuit

WatchSpec == WatchInit /\ [][WatchNext]_vars

\* the loop and Update take their turns
WatchFairSpec == WatchSpec /\ WF_vars(LoopStep) /\ WF_vars(Delivered)

(***************************************************************************)
(* The watcher with several changes under way, on the disk where /r has    *)
(* its .git directory and nothing else                                     *)
(***************************************************************************)
OrderInit ==
    /\ WatchInit
    /\ <<"r", ".git">> \in disk.dirs
    /\ <<"r", ".git", "refs">> \notin disk.dirs

Burst == RawChangeWithin(MaxBurst)

OrderNext ==
    \/ WatchRebuild
    \/ Burst
    \/ LoopStep
    \/ Delivered
    \/ WatchQuit

OrderSpec == OrderInit /\ [][OrderNext]_vars

(***************************************************************************)
(* The goroutines of the watchers on their own: rebuilds replace the       *)
(* watcher, notifications arrive, Update takes messages, the program ends  *)
(***************************************************************************)
LoopInit ==
    /\ Launched
    /\ probe = NoProbe
    /\ derive = NoDerive
    /\ disk = NoDisk
    /\ fsw = NoFsw
    /\ queue = <<>>
    /\ parse = NoParse
    /\ walk = NoWalk
    /\ loops = NoLoops

LoopFrame ==
    UNCHANGED << dash, probe, derive, disk, fsw, queue, parse, walk >>

\* the watcher part of refreshAll: Close on the watcher held, then
\* watcher.New, which starts the goroutine when it succeeds
LoopRebuilt ==
    /\ ~loops.ended
    /\ Len(loops.ws) < MaxWatchers
    /\ \E newOk \in NewOutcomes :
         LET closed == IF loops.current # 0
                       THEN [loops.ws EXCEPT ![loops.current] = Closed(@)]
                       ELSE loops.ws
         IN  loops' = IF SendFnSet /\ newOk
                      THEN [loops EXCEPT !.ws = Append(closed, NewLoop),
                                         !.current = Len(closed) + 1]
                      ELSE [loops EXCEPT !.ws = closed]
    /\ LoopFrame

\* fsnotify offers a notification on the Events channel of watcher w
LoopNotified(w) ==
    /\ w \in 1..Len(loops.ws)
    /\ loops.ws[w].open
    /\ loops.ws[w].event = ""
    /\ \E op \in Ops : loops' = [loops EXCEPT !.ws[w].event = op]
    /\ LoopFrame

\* the goroutine of w receives in its select
LoopSelected(w) ==
    /\ w \in 1..Len(loops.ws)
    /\ loops.ws[w].pc = "select"
    /\ ~loops.ws[w].open \/ loops.ws[w].event # ""
    /\ loops' = [loops EXCEPT !.ws[w] = Selected(@)]
    /\ LoopFrame

\* sendFn returns in the goroutine of w: Update has taken the message, or
\* the program has ended
LoopSent(w) ==
    /\ w \in 1..Len(loops.ws)
    /\ loops.ws[w].pc = "send"
    /\ loops' = [loops EXCEPT !.ws[w] = Returned(@)]
    /\ LoopFrame

\* the quit key: Close on the watcher held, then tea.Quit
LoopQuit ==
    /\ ~loops.ended
    /\ loops' = [loops EXCEPT
                   !.ws = IF loops.current # 0
                          THEN [@ EXCEPT ![loops.current] = Closed(@)]
                          ELSE @,
                   !.ended = TRUE]
    /\ LoopFrame

LoopNext ==
    \/ LoopRebuilt
    \/ \E w \in 1..MaxWatchers : LoopNotified(w)
    \/ \E w \in 1..MaxWatchers : LoopSelected(w)
    \/ \E w \in 1..MaxWatchers : LoopSent(w)
    \/ LoopQuit

LoopSpec == LoopInit /\ [][LoopNext]_vars

\* every goroutine keeps running, and the messages it sends are taken
LoopFairSpec ==
    /\ LoopSpec
    /\ \A w \in 1..MaxWatchers :
         WF_vars(LoopSelected(w)) /\ WF_vars(LoopSent(w))

(***************************************************************************)
(* parsePorcelain on its own: Discover reads a listing, then parses it     *)
(***************************************************************************)
ParseInit ==
    /\ Launched
    /\ probe = NoProbe
    /\ derive = NoDerive
    /\ disk = NoDisk
    /\ loops = NoLoops
    /\ fsw = NoFsw
    /\ queue = <<>>
    /\ parse = NoParse
    /\ walk = NoWalk

\* cmd.Output() of Discover returns a listing
Listed ==
    /\ parse.stage = "none"
    /\ \E in \in ListingInputs :
         parse' = [stage |-> "listed", in |-> in, out |-> <<>>]
    /\ UNCHANGED << dash, probe, derive, disk, loops, walk, fsw, queue >>

\* parsePorcelain returns
Parsed ==
    /\ parse.stage = "listed"
    /\ parse' = [parse EXCEPT
                   !.stage = "parsed",
                   !.out = parsePorcelain(ListingLines(parse.in.recs,
                                                       parse.in.ends))]
    /\ UNCHANGED << dash, probe, derive, disk, loops, walk, fsw, queue >>

ParseNext == Listed \/ Parsed

ParseSpec == ParseInit /\ [][ParseNext]_vars

(***************************************************************************)
(* Properties                                                              *)
(***************************************************************************)

\* C1: in every reachable state the cursor is inside a non-empty table
\* (0 <= cursor < len(rows)) and is 0 when the table is empty.
CursorInBounds ==
    /\ Len(rows) > 0 => (0 <= cursor /\ cursor < Len(rows))
    /\ Len(rows) = 0 => cursor = 0

\* a rebuild after a removal left one row, so a cursor that was on a later
\* row has been clamped to it
CursorClamped ==
    /\ last.rm = "ok"
    /\ last.disc = "ok"
    /\ Len(rows) = 1
    /\ cursor = 0

\* C2: worktree.Remove is never called with the path of the row that is at
\* index 0 of the table at the moment of the call.
RemoveSparesRowZero == last.rmPath # "" => last.rmPath # last.rmRow0

\* C3: the delete key handled outside a confirmation with the cursor on row
\* 0 leaves confirming false, makes no kill or remove call, keeps rows and
\* cursor, and changes only the status message, to the cannot-delete text.
DeleteOnRowZeroRefused ==
    [][ (last'.ev = "key" /\ last'.key = "delete" /\ cursor = 0)
        => /\ confirming' = FALSE
           /\ last'.rmPath = ""
           /\ last'.kill = "none"
           /\ rows' = rows
           /\ cursor' = cursor
           /\ message' = CannotDeleteMsg
           /\ UNCHANGED << width, height, watcher, watchers, quit >> ]_vars

\* the delete key was refused on row 0 of a two-row table
DeleteRefusedOnRowZero ==
    /\ last.key = "delete"
    /\ message = CannotDeleteMsg
    /\ Len(rows) = 2
    /\ cursor = 0
    /\ ~confirming

\* C4: whenever a key is handled while confirming is true, confirming is
\* false when handleKey returns.
ConfirmingEndsWithKey ==
    [][ (confirming /\ last'.ev = "key") => ~confirming' ]_vars

\* the confirm key was handled and the removal failed
ConfirmFailed ==
    /\ last.key = "confirm"
    /\ last.rm = "fail"
    /\ message = DeleteFailedMsg(ErrText)
    /\ ~confirming

\* C5: the delete key on a row > 0 followed at once by a key other than
\* the confirm key ends with confirming false, an empty status message, rows
\* and cursor as they were before the delete key, and no kill or remove
\* call made.
CancelRestoresTable ==
    [][ (prompt.asked /\ last'.ev = "key" /\ last'.key # "confirm")
        => /\ ~confirming'
           /\ message' = NoMessage
           /\ rows' = prompt.rows
           /\ cursor' = prompt.cursor
           /\ last'.kill = "none"
           /\ last'.rmPath = "" ]_vars

\* a confirmation was cancelled with the cursor on the second row
ConfirmationCancelled ==
    /\ last.key = "cancel"
    /\ Len(rows) = 2
    /\ cursor = 1
    /\ message = NoMessage
    /\ ~confirming

\* C6: in any state, a handled quit key (q or ctrl+c) closes the watcher and
\* ends the event loop.
QuitKeyAlwaysQuits ==
    (last.ev = "key" /\ last.viaQuit)
        => /\ quit
           /\ OpenWatchers = {}

\* C7: when the loop has ended through the quit command no watcher is open.
QuitLeavesNoWatcherOpen == quit => OpenWatchers = {}

\* the loop ended while the model held a watcher
QuitWithWatcher ==
    /\ quit
    /\ watcher # NoWatcher
    /\ Len(rows) = 2

\* C8, as stated: after every successful full rebuild exactly one watcher is
\* open, it is the model's, and the worktrees it was given are the paths of
\* the rows just built.
RebuildLeavesOneWatcher ==
    last.disc = "ok"
        => /\ OpenWatchers = {watcher}
           /\ watchers[watcher].paths = RowPaths(rows)

\* C8, amended: after every successful full rebuild no watcher of an earlier
\* rebuild is open; if watcher.New succeeded exactly one watcher is open, the
\* model's, given the paths of the rows just built; if watcher.New failed no
\* watcher is open.
RebuildReplacesWatcher ==
    last.disc = "ok"
        => /\ OpenWatchers \subseteq {watcher}
           /\ last.wnew = "ok"
                => /\ OpenWatchers = {watcher}
                   /\ watchers[watcher].paths = RowPaths(rows)
           /\ last.wnew = "fail" => OpenWatchers = {}

\* a rebuild after a removal created a watcher over a two-row table
RebuiltWithWatcher ==
    /\ last.disc = "ok"
    /\ last.wnew = "ok"
    /\ last.ev = "key"
    /\ Len(rows) = 2

\* C9: a rebuild whose Discover fails leaves rows and cursor as they were
\* and neither closes nor replaces the watcher.
FailedDiscoveryKeepsTable ==
    [][ last'.disc = "fail"
        => /\ rows' = rows
           /\ cursor' = cursor
           /\ watcher' = watcher
           /\ watchers' = watchers ]_vars

\* Discover failed over a two-row table with its watcher open
DiscoveryFailedOnTable ==
    /\ last.disc = "fail"
    /\ Len(rows) = 2
    /\ OpenWatchers = {watcher}

\* C10: when Discover fails during a rebuild, the status message holds the
\* discovery error once the event that caused the rebuild has been handled.
DiscoveryErrorShown ==
    last.disc = "fail" => message = DiscoveryErrorMsg(ErrText)

\* the row of rs whose worktree path is p
RowOf(rs, p) == CHOOSE i \in 1..Len(rs) : rs[i].Worktree.Path = p

\* no row's pull request differs between the tables rs and ts
SamePRs(rs, ts) ==
    /\ Len(rs) = Len(ts)
    /\ \A i \in 1..Len(rs) : rs[i].PR = ts[i].PR

\* C11: a file-change signal whose path is the path of no row, of any kind,
\* leaves rows, cursor, confirming and message unchanged and calls neither
\* the status probe nor the agent-state reader.
SignalForAbsentRowIsNoOp ==
    [][ (last'.ev = "signal" /\ last'.sigPath \notin RowPaths(rows))
        => /\ UNCHANGED << rows, cursor, confirming, message >>
           /\ ~last'.probed
           /\ ~last'.read ]_vars

\* a signal of unrecognized kind for a path owning no row of a two-row table
AbsentRowSignalled ==
    /\ last.ev = "signal"
    /\ last.sigKind = "other"
    /\ last.sigPath = "/r/.git/worktrees"
    /\ Len(rows) = 2

\* C12: a signal (P, agent) for the path P of a row changes at most that
\* row's AgentState, to what the sidecar read returned; the row's other
\* fields, every other row, the order, cursor, confirming and message are
\* unchanged.
AgentSignalTouchesAgentStateOnly ==
    [][ (/\ last'.ev = "signal"
         /\ last'.sigKind = "agent"
         /\ last'.sigPath \in RowPaths(rows))
        => /\ rows' = [rows EXCEPT ![RowOf(rows, last'.sigPath)].AgentState =
                                      last'.agentGot]
           /\ last'.read
           /\ ~last'.probed
           /\ UNCHANGED << cursor, confirming, message >> ]_vars

\* an agent signal for the second row replaced its agent state while its
\* git status stayed dirty
AgentSignalApplied ==
    /\ last.ev = "signal"
    /\ last.sigKind = "agent"
    /\ Len(rows) = 2
    /\ last.sigPath = rows[2].Worktree.Path
    /\ rows[2].AgentState = [present |-> TRUE, session |-> "repo"]
    /\ ~rows[2].GitStatus.Clean

Min(a, b) == IF a < b THEN a ELSE b

\* C14: with the cursor at i > 0 the delete key sets confirming and a message
\* naming the branch of rows[i]; the confirm key pressed next calls
\* worktree.Remove with the path of rows[i], and when the removal succeeds a
\* full rebuild runs and the cursor ends at min(i, newLen-1), 0 for an empty
\* table.
DeleteThenConfirmRemovesRow ==
    [][ /\ (last'.key = "delete" /\ cursor > 0 /\ cursor < Len(rows))
           => /\ confirming'
              /\ message' = ConfirmMsg(rows[cursor + 1].Worktree.Branch)
              /\ UNCHANGED << rows, cursor >>
        /\ (prompt.asked /\ last'.key = "confirm")
           => /\ prompt.cursor > 0
              /\ last'.rmPath =
                    prompt.rows[prompt.cursor + 1].Worktree.Path
              /\ last'.rm = "ok"
                   => /\ last'.disc # "none"
                      /\ cursor' = IF Len(rows') = 0 THEN 0
                                   ELSE Min(prompt.cursor, Len(rows') - 1) ]_vars

\* the confirm key pressed right after the prompt removed the second row and
\* the rebuild found one worktree left
ConfirmedRemovalRebuilt ==
    /\ last.key = "confirm"
    /\ last.prompted
    /\ last.rmPath = "/r-featA"
    /\ last.rm = "ok"
    /\ last.disc = "ok"
    /\ Len(rows) = 1
    /\ cursor = 0

\* C15: when worktree.Remove fails the message carries its error, no full
\* rebuild runs, the watcher is not replaced, rows and cursor are unchanged
\* and confirming is false.
FailedRemovalKeepsTable ==
    [][ last'.rm = "fail"
        => /\ message' = DeleteFailedMsg(ErrText)
           /\ last'.disc = "none"
           /\ last'.wnew = "none"
           /\ UNCHANGED << rows, cursor, watcher, watchers >>
           /\ ~confirming' ]_vars

\* a removal of the second row failed while a watcher was open
RemovalFailedOnTable ==
    /\ last.key = "confirm"
    /\ last.rm = "fail"
    /\ last.rmPath = "/r-featA"
    /\ Len(rows) = 2
    /\ cursor = 1
    /\ watcher # NoWatcher

\* C16: on the confirm key the window is closed by multiplexer reference when
\* the row has an agent state with a non-empty session, otherwise by path
\* search, and worktree.Remove is called afterwards whatever the result of
\* the window-close call.
KillThenRemoveRegardless ==
    [][ (last'.key = "confirm" /\ cursor < Len(rows))
        => /\ last'.kill =
                IF /\ rows[cursor + 1].AgentState.present
                   /\ rows[cursor + 1].AgentState.session # ""
                THEN "ref" ELSE "path"
           /\ last'.killed \in {"ok", "fail"}
           /\ last'.rm \in {"ok", "fail"}
           /\ last'.rmPath = rows[cursor + 1].Worktree.Path
           /\ last'.rm = "fail" => message' = DeleteFailedMsg(ErrText)
           /\ (last'.rm = "ok" /\ last'.disc = "ok")
                => message' = DeletedMsg(rows[cursor + 1].Worktree.Branch) ]_vars

\* the window-close call by path failed for a row whose agent state has an
\* empty session, and the removal went through
RemovedAfterFailedKill ==
    /\ last.key = "confirm"
    /\ last.kill = "path"
    /\ last.killed = "fail"
    /\ last.rm = "ok"
    /\ message = DeletedMsg("featA")

\* C17: on the enter key outside a confirmation the window of the current
\* row is focused by session and window when its agent state has a non-empty
\* session, otherwise by a search for the row's path; when the call fails the
\* message is set to its error; rows, cursor and confirming are unchanged.
EnterFocusesWindow ==
    [][ last'.key = "enter"
        => /\ UNCHANGED << rows, cursor, confirming >>
           /\ ~confirming'
           /\ cursor < Len(rows)
                => /\ last'.focus =
                        IF /\ rows[cursor + 1].AgentState.present
                           /\ rows[cursor + 1].AgentState.session # ""
                        THEN "ref" ELSE "path"
                   /\ (last'.focused = "fail" /\ last'.focus = "ref")
                        => message' = JumpFailedMsg(ErrText)
                   /\ (last'.focused = "fail" /\ last'.focus = "path")
                        => message' = TmuxMsg(ErrText)
                   /\ last'.focused = "ok" => message' = message ]_vars

\* the focus call by reference failed on the second row
FocusByRefFailed ==
    /\ last.key = "enter"
    /\ last.focus = "ref"
    /\ last.focused = "fail"
    /\ cursor = 1
    /\ message = JumpFailedMsg(ErrText)

\* C18: on the open key outside a confirmation, a current row without a pull
\* request gets the message that there is none and pr.OpenInBrowser is not
\* called; a row with one has pr.OpenInBrowser called for its path, and a
\* failure of that call is put into the message; the table is unchanged.
OpenFailureSurfaced ==
    [][ (last'.key = "open" /\ cursor < Len(rows))
        => /\ UNCHANGED << rows, cursor, confirming >>
           /\ rows[cursor + 1].PR = "nil"
                => /\ message' = NoPRMsg
                   /\ last'.open = "none"
           /\ rows[cursor + 1].PR # "nil"
                => /\ last'.open \in {"ok", "fail"}
                   /\ last'.openPath = rows[cursor + 1].Worktree.Path
                   /\ last'.open = "fail" => message'.arg = ErrText ]_vars

\* C19: in a full rebuild whose Discover succeeds, failing reads (status
\* probe, pull request fetch, sidecar read) of any rows neither abort the
\* rebuild nor drop a row: the table has one row per discovered worktree, in
\* order, and a failed read leaves the zero Status or nil in its field.
FailedReadsKeepEveryRow ==
    [][ last'.disc = "ok"
        => /\ Len(rows') = Len(last'.listed)
           /\ \A i \in 1..Len(rows') :
                /\ rows'[i].Worktree = last'.listed[i]
                /\ "probe" \in last'.failed[i]
                     => rows'[i].GitStatus = ZeroStatus
                /\ "fetch" \in last'.failed[i] => rows'[i].PR = "nil"
                /\ "sidecar" \in last'.failed[i]
                     => rows'[i].AgentState = NilAgent
           /\ cursor' <= Max(0, Len(rows') - 1)
           /\ last'.wnew # "none" ]_vars

\* a rebuild listed two worktrees; the fetch and the sidecar read failed for
\* the first and the status probe for the second
RebuiltWithFailedReads ==
    /\ last.disc = "ok"
    /\ Len(last.listed) = 2
    /\ last.failed = << {"fetch", "sidecar"}, {"probe"} >>
    /\ Len(rows) = 2
    /\ rows[2].GitStatus = ZeroStatus
    /\ rows[1].PR = "nil"

\* C20: when `git status` fails inside the status probe, the Status it
\* yields has every count 0 and is reported as clean: Clean is true and its
\* display string is "clean".
FailedProbeReportedClean ==
    (probe.stage = "shown" /\ probe.in.err)
        => /\ probe.status.Ahead = 0
           /\ probe.status.Behind = 0
           /\ probe.status.Staged = 0
           /\ probe.status.Unstaged = 0
           /\ probe.status.Untracked = 0
           /\ probe.status.Clean
           /\ probe.text = << Part("clean", 0) >>

\* C21: after a full rebuild whose Discover succeeds, rows is as long as the
\* listing Discover returned, rows[i].Worktree is its i-th worktree, and the
\* GitStatus, PR and AgentState of every row are what gitstatus.Get, pr.Fetch
\* and agent.ReadState returned for it during that rebuild.
RebuildKeepsDiscoveryOrder ==
    [][ last'.disc = "ok"
        => /\ Len(rows') = Len(last'.listed)
           /\ Len(last'.got) = Len(last'.listed)
           /\ \A i \in 1..Len(rows') :
                /\ rows'[i].Worktree = last'.listed[i]
                /\ rows'[i].GitStatus = Get(last'.got[i].probe)
                /\ rows'[i].PR = Fetch(last'.got[i].fetch)
                /\ rows'[i].AgentState = ReadState(last'.got[i].sidecar) ]_vars

\* a rebuild listed the main worktree, then a linked one, with different
\* reads for the two
RebuiltInDiscoveryOrder ==
    /\ last.disc = "ok"
    /\ last.listed = << MainWT, FeatA >>
    /\ rows[1].Worktree = MainWT
    /\ rows[2].Worktree = FeatA
    /\ rows[1].PR = "pr"
    /\ rows[2].PR = "nil"

\* C23: for the git kind the owner of a changed path several levels inside
\* R/.git/refs is the owner of a path one level inside R/.git/refs.
OwnerStableUnderDepth ==
    (/\ derive.stage = "derived"
     /\ derive.kind = "git"
     /\ Len(derive.path) >= 5
     /\ derive.path[2] = ".git"
     /\ derive.path[3] = "refs")
        => derive.A.owner =
             deriveWorktreePath(SubSeq(derive.path, 1, 4), "git")

\* C24: a raw change is of kind agent exactly when the base name of its path
\* is state.json and of kind git otherwise; the owner of an agent change is
\* the ancestor three levels above the changed path, so a change of
\* W/.sideby/agent/state.json gives (W, agent).
AgentOwnerThreeLevelsUp ==
    derive.stage = "derived"
        => /\ derive.kind = "agent" <=> Base(derive.path) = "state.json"
           /\ derive.kind \in {"agent", "git"}
           /\ (derive.kind = "agent" /\ Len(derive.path) >= 3)
                => derive.A.owner
                     \o SubSeq(derive.path, Len(derive.path) - 2,
                               Len(derive.path)) = derive.path
           /\ (derive.kind = "agent" /\ Len(derive.path) < 3)
                => derive.A.owner = <<>>
           /\ \A r \in Roots :
                derive.path = r \o <<".sideby", "agent", "state.json">>
                    => derive.kind = "agent" /\ derive.A.owner = r

\* the owner of /r-featA/.sideby/agent/state.json was derived
SidecarOwnerDerived ==
    /\ derive.stage = "derived"
    /\ derive.path = <<"r-featA", ".sideby", "agent", "state.json">>
    /\ derive.kind = "agent"
    /\ derive.A.owner = <<"r-featA">>

GitChangeSignalsItsWorktree ==
    [][ (last'.ev = "loop" /\ Head(fsw.events).op \in SentOps)
          => \A sub \in fsw.subs :
               (sub.what = "git" /\ sub.path = Dir(Head(fsw.events).name))
                 => /\ queue' # <<>>
                    /\ queue'[Len(queue')].Kind = "git"
                    /\ queue'[Len(queue')].WorktreePath = sub.for ]_vars

\* C26: for every raw change of an active subscription, whatever its
\* operation, the loop pushes exactly one signal into the event queue.
EveryRawChangeSignalled ==
    [][ last'.ev = "loop"
          => queue' = Append(queue, Signal(Head(fsw.events))) ]_vars

\* C27: for a linked worktree whose .git file holds "gitdir: <P>" and a
\* newline, the rebuild asks for and gets a subscription on exactly P.
RedirectTargetSubscribed ==
    (last.wnew = "ok" /\ Redirect(TRUE) \in disk.files)
        => /\ PathString(FeatAGitdir) \in fsw.asked
           /\ \E sub \in fsw.subs :
                sub.path = FeatAGitdir /\ sub.for = <<"r-featA">>

\* the directories WatchWorktree(root) names that exist on the disk d
Wanted(d, root) ==
    LET gitDir == root \o <<".git">>
    IN  ({ root \o <<".sideby", "agent">>, gitDir }
         \cup (IF gitDir \in d.dirs
               THEN { gitDir \o <<"refs">>, gitDir \o <<"refs", "heads">> }
               ELSE {}))
        \cap d.dirs

\* C28: a failure to set up watching is never fatal: when an Add fails or a
\* worktree lacks its .git entry or agent directory, every other directory
\* of every row is still subscribed; when creating the watcher fails, the
\* rebuilt rows and cursor are installed and a refresh and quit can follow.
WatchSetupNeverFatal ==
    /\ last.wnew = "ok"
         => \A i \in 1..Len(rows) :
              LET root == Elements(rows[i].Worktree.Path)
              IN  \A p \in Wanted(disk, root) \ last.bad :
                    \E sub \in fsw.subs : sub.path = p /\ sub.for = root
    /\ last.wnew = "fail"
         => /\ rows = BuildRows(last.listed, last.got)
            /\ Len(rows) = Len(last.listed)
            /\ cursor < Len(rows)
            /\ ~fsw.open
            /\ ENABLED WatchRebuild
            /\ ENABLED WatchQuit

\* a rebuild in which the Add of /r/.sideby/agent failed and the directories
\* after it were subscribed all the same
SubscribedPastFailedAdd ==
    /\ last.wnew = "ok"
    /\ last.bad = { <<"r", ".sideby", "agent">> }
    /\ PathString(<<"r", ".sideby", "agent">>) \in fsw.asked
    /\ \E sub \in fsw.subs : sub.path = <<"r", ".git">>
    /\ \E sub \in fsw.subs : sub.path = <<"r-featA", ".sideby", "agent">>
    /\ Len(rows) = 2

\* C30: a step of the watcher's loop leaves rows, cursor, confirming and
\* message alone and changes the event queue at most by appending one
\* FileChangedMsg; rows, cursor, confirming and message change only in steps
\* of Update (refresh, key, signal).
LoopTouchesOnlyQueue ==
    [][ /\ last'.ev = "loop"
          => /\ UNCHANGED << rows, cursor, confirming, message, width,
                             height, watcher, watchers >>
             /\ \/ queue' = queue
                \/ /\ Len(queue') = Len(queue) + 1
                   /\ SubSeq(queue', 1, Len(queue)) = queue
                   /\ DOMAIN queue'[Len(queue')] = {"WorktreePath", "Kind"}
        /\ (rows' # rows \/ cursor' # cursor \/ confirming' # confirming
              \/ message' # message)
          => last'.ev \in {"refresh", "key", "signal"} ]_vars

\* the loop has sent a signal while the table has rows
LoopSentSignal ==
    /\ last.ev = "loop"
    /\ last.raw.op \in SentOps
    /\ queue # <<>>
    /\ Len(rows) = 2

EveryEntryLineClassified ==
    (/\ probe.stage # "asked"
     /\ ~probe.in.err
     /\ \A i \in DOMAIN probe.in.out : Len(probe.in.out[i]) >= 4)
        => LET out == probe.in.out
               untracked == { i \in DOMAIN out :
                                out[i][1] = "?" /\ out[i][2] = "?" }
               staged == { i \in DOMAIN out : out[i][1] \notin {" ", "?"} }
               unstaged == { i \in DOMAIN out \ untracked :
                               out[i][2] # " " }
           IN  /\ probe.status.Untracked = Cardinality(untracked)
               /\ probe.status.Staged = Cardinality(staged)
               /\ probe.status.Unstaged = Cardinality(unstaged)
               /\ probe.status.Clean <=> out = <<>>

\* C39: parsePorcelain returns one Worktree per "worktree" record of the
\* listing, in listing order, a final record without a blank line after it
\* included, and each Branch is the ref without its refs/heads/ prefix, so
\* that refs/heads/feature/auth is reported as feature/auth.
OneWorktreePerRecord ==
    parse.stage = "parsed"
        => /\ Len(parse.out) = Len(parse.in.recs)
           /\ \A i \in 1..Len(parse.in.recs) :
                /\ parse.out[i].Path = parse.in.recs[i].Path
                /\ parse.out[i].Branch =
                     SubSeq(parse.in.recs[i].ref, 3,
                            Len(parse.in.recs[i].ref))

\* C37: deriveWorktreePath terminates for every path and kind, paths made of
\* git-internal names up to the root and relative paths included: the walk
\* stops at the root or at "." and a value is returned.
DeriveAlwaysReturns ==
    /\ <>(walk.stage = "returned")
    /\ [](walk.passes + Len(walk.dir.elems) <= Len(walk.path.elems))
    /\ [](walk.stage = "returned"
            => /\ walk.kind = "git" => BaseOf(walk.dir) \notin GitInternal
               /\ walk.path.abs
                    => walk.dir.elems
                         = deriveWorktreePath(walk.path.elems, walk.kind))

\* /.git/refs/heads/x was walked up to the root, and returned
WalkedToRoot ==
    /\ walk.stage = "returned"
    /\ walk.kind = "git"
    /\ walk.path = PathOf(TRUE, <<".git", "refs", "heads", "x">>)
    /\ walk.dir = PathOf(TRUE, <<>>)
    /\ walk.passes = 3

\* C34: while confirming, rows[cursor] stays the worktree the prompt named:
\* no resize, file-change signal or startup refresh handled between the
\* delete key and the next key changes cursor, the number or order of rows
\* or a row's Worktree, and 0 < cursor < len(rows) throughout.
ConfirmedRowStays ==
    [][ (confirming /\ last'.ev \in {"resize", "signal", "refresh"})
          => /\ confirming'
             /\ cursor' = cursor
             /\ Len(rows') = Len(rows)
             /\ \A i \in 1..Len(rows) : rows'[i].Worktree = rows[i].Worktree
             /\ 0 < cursor'
             /\ cursor' < Len(rows') ]_vars

\* C35: an event other than a key handled while confirming leaves
\* confirming, cursor and the message as they are; a resize changes only
\* width and height, a file-change signal at most GitStatus and AgentState
\* of one row; the confirm key then kills the window by the reference the
\* row holds at that moment.
NonKeyEventsKeepConfirmation ==
    [][ /\ (confirming /\ last'.ev # "key")
          => /\ confirming'
             /\ cursor' = cursor
             /\ message' = message
             /\ last'.ev = "resize"
                  => UNCHANGED << rows, watcher, watchers, quit >>
             /\ last'.ev = "signal"
                  => /\ UNCHANGED << width, height, watcher, watchers, quit >>
                     /\ Len(rows') = Len(rows)
                     /\ \A i \in 1..Len(rows) :
                          /\ rows'[i].Worktree = rows[i].Worktree
                          /\ rows'[i].PR = rows[i].PR
                     /\ \A i, j \in 1..Len(rows) :
                          (rows'[i] # rows[i] /\ rows'[j] # rows[j]) => i = j
        /\ (confirming /\ last'.ev = "key" /\ last'.key = "confirm"
               /\ cursor < Len(rows))
          => last'.kill = IF HasTmuxRef(rows[cursor + 1]) THEN "ref"
                          ELSE "path" ]_vars

\* C31: a signal of the watcher of an earlier rebuild that Update handles
\* after a later rebuild replaced that watcher adds, removes and reorders no
\* row and leaves cursor, confirming and message alone; it matches no row
\* and does nothing, or overwrites one field of a current row with a value
\* read for that row's own path.
StaleSignalHarmless ==
    [][ (last'.ev = "signal" /\ last'.stale)
          => LET hits == { i \in 1..Len(rows) :
                             rows[i].Worktree.Path = last'.sigPath }
             IN  /\ UNCHANGED << cursor, confirming, message, width, height,
                                 watcher, watchers, quit >>
                 /\ Len(rows') = Len(rows)
                 /\ \A i \in 1..Len(rows) :
                      /\ rows'[i].Worktree = rows[i].Worktree
                      /\ rows'[i].PR = rows[i].PR
                      /\ i \notin hits => rows'[i] = rows[i]
                 /\ hits = {} => rows' = rows
                 /\ \A i, j \in 1..Len(rows) :
                      (rows'[i] # rows[i] /\ rows'[j] # rows[j]) => i = j
                 /\ \A i \in hits :
                      /\ last'.sigKind = "git"
                           => /\ rows'[i].GitStatus \in {rows[i].GitStatus,
                                                        last'.gitGot}
                              /\ rows'[i].AgentState = rows[i].AgentState
                      /\ last'.sigKind = "agent"
                           => /\ rows'[i].AgentState \in {rows[i].AgentState,
                                                         last'.agentGot}
                              /\ rows'[i].GitStatus = rows[i].GitStatus
                 /\ last'.sigKind \in {"git", "agent"} ]_vars

\* a signal of the replaced watcher for /r-featA was handled after a rebuild
\* that no longer lists /r-featA
StaleSignalForRemovedRow ==
    /\ last.ev = "signal"
    /\ last.stale
    /\ last.sigPath = "/r-featA"
    /\ Len(rows) = 1
    /\ fsw.open

\* C33: the FileChangedMsg values of one watcher reach Update in the order
\* of the raw notifications that caused them: fsnotify's events and the
\* messages sent are each taken from the front and added at the back, and
\* Update handles the message at the front, whole, in one step.
SignalsInArrivalOrder ==
    [][ /\ last'.ev = "raw"
          => /\ fsw'.events = Append(fsw.events, last'.raw)
             /\ queue' = queue
        /\ last'.ev = "loop"
          => /\ last'.raw = Head(fsw.events)
             /\ fsw'.events = Tail(fsw.events)
             /\ queue' = IF last'.raw.op \in SentOps
                         THEN Append(queue, Signal(last'.raw)) ELSE queue
        /\ last'.ev = "signal"
          => /\ queue' = Tail(queue)
             /\ fsw'.events = fsw.events
             /\ last'.sigPath = PathText(Head(queue).WorktreePath)
             /\ last'.sigKind = Head(queue).Kind ]_vars

\* two different messages wait for Update, the older one in front
TwoSignalsQueued ==
    /\ last.ev = "loop"
    /\ Len(queue) = 2
    /\ queue[1] # queue[2]
    /\ queue[2] = Signal(last.raw)
    /\ fsw.sent = 2

\* C36: after Close on a watcher its goroutine returns in the end, given
\* that Update keeps taking messages or the program has ended: a goroutine
\* inside sendFn gets rid of the one message it holds, finds the event
\* channel closed and returns, and sends nothing after Close.
ClosedLoopReturns ==
    /\ \A w \in 1..MaxWatchers :
         (w <= Len(loops.ws) /\ ~loops.ws[w].open)
             ~> (w <= Len(loops.ws) /\ loops.ws[w].pc = "done")
    /\ [](\A w \in 1..Len(loops.ws) :
            /\ loops.ws[w].sent = 0
            /\ loops.ws[w].pc = "done" => ~loops.ws[w].open)

\* a replaced watcher whose goroutine was inside sendFn at Close has
\* returned, while the watcher that replaced it is open
ReplacedLoopReturned ==
    /\ Len(loops.ws) = 2
    /\ loops.current = 2
    /\ loops.ws[1].pc = "done"
    /\ loops.ws[2].open
    /\ ~loops.ended

\* C32: for every worktree with a row, a change of its sidecar file (created,
\* rewritten or removed) or of its git metadata made after the last rebuild
\* leads, when the loop and Update take their turns and without a manual
\* refresh, to a recompute of exactly that row.
ChangeReachesRow ==
    \A root \in Roots :
      (/\ fsw.events # <<>>
       /\ PathText(root) \in RowPaths(rows)
       /\ Base(Head(fsw.events).name) \in {"state.json", "HEAD"}
       /\ Head(fsw.events).op \in {"create", "write", "remove"}
       /\ \E sub \in fsw.subs :
            sub.for = root /\ sub.path = Dir(Head(fsw.events).name))
        ~> \/ quit
           \/ last.ev \in {"refresh", "key"}
           \/ /\ last.ev = "signal"
              /\ last.sigPath = PathText(root)
              /\ last.probed \/ last.read

====
